---- MODULE Spec2Model ----
(***************************************************************************)
(* scripts/make_release_notes.py: the changelog-to-release-notes rewriter.  *)
(*                                                                         *)
(* Strings are sequences of one-character strings.  Every regular          *)
(* expression of the script is an operator that computes what re.match     *)
(* computes on the remaining text: whether it matches at the cursor, the   *)
(* length of group(0) and the captured group.  Translator.translate is the *)
(* state machine Spec (FairSpec with the loop's progress assumed);         *)
(* read_changelog_section is the state machine SpecSection.                *)
(***************************************************************************)
EXTENDS Integers, Sequences, FiniteSets, TLC

VARIABLES
    local_repo,      \* Renderer.local_repo
    product,         \* Renderer.product (<<>> models None: falsy)
    input,           \* the argument translate was called with
    text,            \* translate's local: the remaining text
    result,          \* translate's local: the output so far
    key,             \* translate's local: the rule the for loop stopped at
    m,               \* translate's local: that rule's match object
    spans,           \* history: one record per loop iteration (rule, match, output)
    pc,              \* "loop" | "matched" | "done" for translate; "idle" under SpecSection
    doc,             \* the changelog file's contents
    single_version,  \* read_changelog_section's argument (<<>> models None: falsy)
    fd,              \* the part of the file not yet read
    initial,         \* read_changelog_section's local flag
    lines,           \* read_changelog_section's local list `result`
    section,         \* read_changelog_section's return value
    rpc              \* "read" | "prune" | "done" for the reader; "idle" under Spec

vars == <<local_repo, product, input, text, result, key, m, spans, pc,
          doc, single_version, fd, initial, lines, section, rpc>>

translate_vars == <<local_repo, product, input, text, result, key, m, spans, pc>>
section_vars == <<doc, single_version, fd, initial, lines, section, rpc>>

----------------------------------------------------------------------------
(* Character classes of Python's re on ASCII text.                          *)

Digits == {"0", "1", "2", "3", "4", "5", "6", "7", "8", "9"}

Letters ==
    {"a", "b", "c", "d", "e", "f", "g", "h", "i", "j", "k", "l", "m",
     "n", "o", "p", "q", "r", "s", "t", "u", "v", "w", "x", "y", "z",
     "A", "B", "C", "D", "E", "F", "G", "H", "I", "J", "K", "L", "M",
     "N", "O", "P", "Q", "R", "S", "T", "U", "V", "W", "X", "Y", "Z"}

\* \s
Spaces == {" ", "\t", "\n", "\r", "\f"}

IsSpace(c) == c \in Spaces

\* \d
IsDigit(c) == c \in Digits

\* \w
WordChars == Letters \cup Digits \cup {"_"}

IsWord(c) == c \in WordChars

\* .  (no DOTALL flag anywhere in the script)
IsDot(c) == c # "\n"

\* [*+-]
Markers == {"*", "+", "-"}

IsMarker(c) == c \in Markers

\* [^\s<]
IsUrlChar(c) == ~IsSpace(c) /\ c # "<"

\* [^<.,:;"')\]\s]
UrlEndExcluded == {"<", ".", ",", ":", ";", "\"", "'", ")", "]"}

IsUrlEnd(c) == ~IsSpace(c) /\ c \notin UrlEndExcluded

\* membership in the character class named cls
InClass(cls, c) ==
    CASE cls = "space" -> IsSpace(c)
      [] cls = "digit" -> IsDigit(c)
      [] cls = "word" -> IsWord(c)
      [] cls = "dot" -> IsDot(c)
      [] cls = "urlchar" -> IsUrlChar(c)

----------------------------------------------------------------------------
(* String helpers.                                                          *)

Prefix(p, t) == Len(t) >= Len(p) /\ SubSeq(t, 1, Len(p)) = p

\* t[n:]
Drop(t, n) == SubSeq(t, n + 1, Len(t))

\* p occurs in t starting at index i (1-based)
OccursAt(p, t, i) ==
    /\ i >= 1
    /\ i + Len(p) - 1 <= Len(t)
    /\ SubSeq(t, i, i + Len(p) - 1) = p

\* the length of the longest run of characters of class cls starting at t[from]
RunLen(t, from, cls) ==
    LET run[i \in Nat] ==
            IF i > Len(t) \/ ~InClass(cls, t[i]) THEN 0 ELSE 1 + run[i + 1]
    IN  run[from]

\* the length of the longest run of digits ending t
RECURSIVE DigitsBefore(_, _)
DigitsBefore(t, i) ==
    IF i < 1 \/ ~IsDigit(t[i]) THEN 0 ELSE 1 + DigitsBefore(t, i - 1)

TrailingDigits(t) == DigitsBefore(t, Len(t))

RECURSIVE Join(_)
Join(ss) == IF ss = <<>> THEN <<>> ELSE Head(ss) \o Join(Tail(ss))

\* a match object: g0 is m.group(0), g1 is m.group(1); NoMatch is None
NoMatch == [ok |-> FALSE, g0 |-> <<>>, g1 |-> <<>>]

\* the match of the first n characters of t, with g as its group 1
Match(t, n, g) == [ok |-> TRUE, g0 |-> SubSeq(t, 1, n), g1 |-> g]

----------------------------------------------------------------------------
(* Program constants.                                                       *)

NO_HEADING == <<"P", "R", "O", "D", "U", "C", "T", " ", "H", "A", "S", " ", "N", "O", " ", "H", "E", "A", "D", "I", "N", "G">>

\* CHANGE_TYPE_MAPPING.get(tag, tag)
CHANGE_TYPE_MAPPING(tag) == IF tag = <<"a", "d", "d", "e", "d">> THEN <<"f", "e", "a", "t", "u", "r", "e">> ELSE tag

rules == <<"heading", "bullet", "change_type", "url", "local_issue_link", "text">>

----------------------------------------------------------------------------
(* Translator's compiled patterns, each as re.match on the remaining text.  *)

\* heading = re.compile(r'^#.*')
Translator_heading(t) ==
    IF Len(t) >= 1 /\ t[1] = "#"
    THEN Match(t, 1 + RunLen(t, 2, "dot"), <<>>)
    ELSE NoMatch

\* bullet = re.compile(r'^(\s*)[*+-] ')
\* (no marker is whitespace, so \s* takes the whole run of whitespace)
Translator_bullet(t) ==
    LET k == RunLen(t, 1, "space") IN
    IF /\ Len(t) >= k + 2
       /\ IsMarker(t[k + 1])
       /\ t[k + 2] = " "
    THEN Match(t, k + 2, SubSeq(t, 1, k))
    ELSE NoMatch

\* the change_type pattern without its lookahead: r'\[(\w+)\]'
ChangeTypeNoLookahead(t) ==
    IF Len(t) >= 1 /\ t[1] = "["
    THEN LET k == RunLen(t, 2, "word") IN
         IF k >= 1 /\ Len(t) >= k + 2 /\ t[k + 2] = "]"
         THEN Match(t, k + 2, SubSeq(t, 2, k + 1))
         ELSE NoMatch
    ELSE NoMatch

\* the change_type pattern with its negative lookahead left out
change_type_without_lookahead(t) == ChangeTypeNoLookahead(t)

\* change_type = re.compile(r'\[(\w+)\](?!\()')
NotBeforeParen(t, mt) ==
    IF mt.ok /\ ~(Len(t) >= Len(mt.g0) + 1 /\ t[Len(mt.g0) + 1] = "(")
    THEN mt
    ELSE NoMatch

Translator_change_type(t) == NotBeforeParen(t, ChangeTypeNoLookahead(t))

\* the length of r'https?://' at the start of t, 0 when it is not there
HTTPS == <<"h", "t", "t", "p", "s", ":", "/", "/">>
HTTP == <<"h", "t", "t", "p", ":", "/", "/">>

SchemeLen(t) ==
    IF Prefix(HTTPS, t) THEN 8
    ELSE IF Prefix(HTTP, t) THEN 7
    ELSE 0

\* the last j in 2..k with t[p + j] in the closing class, 0 when there is none
LastUrlEnd(t, p, j) ==
    LET last[i \in Int] ==
            IF i < 2 THEN 0
            ELSE IF IsUrlEnd(t[p + i]) THEN i
            ELSE last[i - 1]
    IN  last[j]

\* the url pattern after a scheme of p characters
UrlAfterScheme(t, p) ==
    LET j == LastUrlEnd(t, p, RunLen(t, p + 1, "urlchar")) IN
    IF j = 0 THEN NoMatch ELSE Match(t, p + j, SubSeq(t, 1, p + j))

\* url = re.compile(r'^(https?://[^\s<]+[^<.,:;"\')\]\s])')
\* [^\s<]+ is greedy and gives characters back until the one after it is in
\* the closing class: the match ends at the last character of the run that
\* is in the closing class and is not the run's first character.
Translator_url(t) ==
    IF Len(t) >= 1 /\ t[1] = "h" /\ SchemeLen(t) > 0
    THEN UrlAfterScheme(t, SchemeLen(t))
    ELSE NoMatch

\* local_issue_link = re.compile(r'\(#(\d+)\)')
Translator_local_issue_link(t) ==
    IF Len(t) >= 2 /\ t[1] = "(" /\ t[2] = "#"
    THEN LET k == RunLen(t, 3, "digit") IN
         IF k >= 1 /\ Len(t) >= k + 3 /\ t[k + 3] = ")"
         THEN Match(t, k + 3, SubSeq(t, 3, k + 2))
         ELSE NoMatch
    ELSE NoMatch

\* the lookahead of the text pattern, tried with j characters consumed:
\* (?=[(\[\n]|https?://|$)
TextTriggers == {"(", "[", "\n"}

TextLookahead(t, j) ==
    \/ j = Len(t)
    \/ t[j + 1] \in TextTriggers
    \/ (t[j + 1] = "h" /\ SchemeLen(Drop(t, j)) > 0)

\* the least j' >= j at which the lookahead holds (j = Len(t) always does)
TextStop(t, j) ==
    LET stop[i \in Nat] == IF TextLookahead(t, i) THEN i ELSE stop[i + 1]
    IN  stop[j]

\* the text pattern made unable to start at '(' , '[' or a newline
text_not_at_trigger(t) ==
    IF Len(t) >= 1 /\ t[1] \notin {"(", "[", "\n"}
    THEN Match(t, TextStop(t, 1), <<>>)
    ELSE NoMatch

\* text = re.compile(r'^[\s\S]+?(?=[(\[\n]|https?://|$)')
\* ([\s\S]+? is lazy: the shortest non-empty prefix the lookahead accepts)
Translator_text(t) ==
    IF Len(t) >= 1
    THEN Match(t, TextStop(t, 1), <<>>)
    ELSE NoMatch

----------------------------------------------------------------------------
(* Renderer.                                                                *)

\* def heading(self, heading)
Renderer_heading(prod, h) ==
    IF prod # <<>>
    THEN IF prod = NO_HEADING
         THEN <<>>
         ELSE <<"#", "#", "#", " ">> \o prod \o <<"\n">>
    ELSE h

\* bullet with the spacing left out of the format string
bullet_without_spacing(spacing) == <<"*", " ">>

\* def bullet(self, spacing)
Renderer_bullet(spacing) == spacing \o <<"*", " ">>

\* def change_type(self, tag)
Renderer_change_type(tag) == <<"{", "{">> \o CHANGE_TYPE_MAPPING(tag) \o <<"}", "}">>

NoIssue == [ok |-> FALSE, link |-> <<>>, repo |-> <<>>, issue |-> <<>>]

GITHUB == <<"/", "/", "g", "i", "t", "h", "u", "b">>
COM == <<"c", "o", "m", "/">>
ISSUES == <<"/", "i", "s", "s", "u", "e", "s", "/">>

\* the host part of Renderer.url's pattern: r'//github.com/' with its
\* unescaped dot
IssueHost(t) ==
    /\ Len(t) >= 13
    /\ SubSeq(t, 1, 8) = GITHUB
    /\ IsDot(t[9])
    /\ SubSeq(t, 10, 13) = COM

\* r'(//github.com/(.*)/issues/(\d+))$' on body, whose last d characters are
\* its trailing digits: '/issues/' has to end right before them, after the
\* host, and (.*) takes what is between (no newline in it)
IssueParts(body, d) ==
    LET s == Len(body) - d - 7 IN
    IF /\ d >= 1
       /\ s >= 14
       /\ OccursAt(ISSUES, body, s)
       /\ RunLen(body, 14, "dot") >= s - 14
    THEN [ok |-> TRUE, link |-> body, repo |-> SubSeq(body, 14, s - 1),
          issue |-> SubSeq(body, Len(body) - d + 1, Len(body))]
    ELSE NoIssue

\* $ matches at the end and before a final newline
BeforeFinalNewline(t) ==
    IF Len(t) >= 1 /\ t[Len(t)] = "\n" THEN SubSeq(t, 1, Len(t) - 1) ELSE t

IssueBody(body) ==
    IF IssueHost(body) THEN IssueParts(body, TrailingDigits(body)) ELSE NoIssue

\* re.match(r'^(?:https:)?(//github.com/(.*)/issues/(\d+))$', url):
\* ok, and groups 1, 2, 3 as link, repo, issue
IssueUrlMatch(u) ==
    IssueBody(BeforeFinalNewline(IF Prefix(<<"h", "t", "t", "p", "s", ":">>, u) THEN Drop(u, 6) ELSE u))

\* return '[%s](%s)' % (text, link), with the three groups of the match
IssueLink(repo, im) ==
    LET t == IF im.repo = repo
             THEN <<"#">> \o im.issue
             ELSE im.repo \o <<"#">> \o im.issue
    IN  <<"[">> \o t \o <<"]", "(">> \o im.link \o <<")">>

UrlOrLink(repo, u, im) == IF im.ok THEN IssueLink(repo, im) ELSE u

\* def url(self, url)
Renderer_url(repo, u) == UrlOrLink(repo, u, IssueUrlMatch(u))

\* def local_issue_link(self, issue)
Renderer_local_issue_link(repo, issue) ==
    LET link == <<"/", "/", "g", "i", "t", "h", "u", "b", ".", "c", "o", "m", "/">> \o repo \o <<"/", "i", "s", "s", "u", "e", "s", "/">> \o issue IN
    <<"(", "[", "#">> \o issue \o <<"]", "(">> \o link \o <<")", ")">>

\* def text(self, text)
Renderer_text(t) == t

----------------------------------------------------------------------------
(* Translator.translate: the inputs the model draws.                        *)

MaxFrags == 2

\* pieces of changelog text; an input is up to MaxFrags of them in a row
Frags ==
    { <<"#">>, <<"\n">>, <<" ">>, <<"-", " ">>, <<"+", " ">>, <<"*", " ">>, <<"-">>, <<"a", "b">>, <<"1">>, <<".">>,
      <<"(">>, <<")">>, <<"[">>, <<"[", "a", "d", "d", "e", "d", "]">>, <<"[", "f", "i", "x", "]">>, <<"[", "f", "i", "x", "]", "(">>, <<"[", "a", " ", "b", "]", "(">>, <<"(", "#", "1", "2", ")">>,
      <<"h", "t", "t", "p", ":", "/", "/", "a", "b", ".", "c">>,
      <<"h", "t", "t", "p", "s", ":", "/", "/", "g", "i", "t", "h", "u", "b", ".", "c", "o", "m", "/", "o", "r", "g", "/", "r", "e", "p", "o", "/", "i", "s", "s", "u", "e", "s", "/", "4", "2">>,
      <<"h", "t", "t", "p", "s", ":", "/", "/", "g", "i", "t", "h", "u", "b", ".", "c", "o", "m", "/", "o", "/", "r", "/", "i", "s", "s", "u", "e", "s", "/", "4">>,
      <<"h", "t", "t", "p", "s", ":", "/", "/", "g", "i", "t", "h", "u", "b", "x", "c", "o", "m", "/", "o", "/", "r", "/", "i", "s", "s", "u", "e", "s", "/", "4">> }

RECURSIVE FragSeqs(_)
FragSeqs(n) ==
    IF n = 0 THEN {<<>>}
    ELSE LET shorter == FragSeqs(n - 1) IN
         shorter \cup {s \o f : s \in shorter, f \in Frags}

\* whole changelog sections, as the script's users write them
Scenarios ==
    { <<"#", "#", " ", "1", ".", "2", ".", "0", "\n", "-", " ", "[", "a", "d", "d", "e", "d", "]", " ", "S", "u", "p", "p", "o", "r", "t", " ", "f", "o", "r", " ", "X", " ", "(", "#", "1", "2", ")", "\n">>,
      <<"#", " ", "v", "6", ".", "1", ".", "0", "\n", "-", " ", "[", "f", "i", "x", "e", "d", "]", " ", "F", "i", "x", " ", "a", " ", "c", "r", "a", "s", "h", " ", "(", "#", "7", ")", ".", "\n", "\n", " ", " ", "+", " ", "[", "c", "h", "a", "n", "g", "e", "d", "]", " ", "S", "e", "e", " ", "h", "t", "t", "p", "s", ":", "/", "/", "g", "i", "t", "h", "u", "b", ".", "c", "o", "m", "/", "o", "r", "g", "/", "r", "e", "p", "o", "/", "i", "s", "s", "u", "e", "s", "/", "4", "2", "\n">>,
      <<"#", " ", "2", ".", "0", "\n", "#", " ", "1", ".", "0", " ", "[", "a", "d", "d", "e", "d", "]", "\n", "+", " ", "[", "f", "i", "x", "e", "d", "]", "(", "l", "i", "n", "k", ")", " ", "f", "o", "r", " ", "h", "t", "t", "p", "s", ":", "/", "/", "g", "i", "t", "h", "u", "b", ".", "c", "o", "m", "/", "o", "t", "h", "e", "r", "/", "r", "e", "p", "o", "/", "i", "s", "s", "u", "e", "s", "/", "4", "2", ".", "\n">> }

Inputs == FragSeqs(MaxFrags) \cup Scenarios

LocalRepos == {<<"o", "r", "g", "/", "r", "e", "p", "o">>, <<"o", "/", "r">>}

\* None, the sentinel, a product token
Products == {<<>>, NO_HEADING, <<"{", "{", "w", "i", "d", "g", "e", "t", "s", "}", "}">>}

----------------------------------------------------------------------------
(* Translator.translate.                                                    *)

\* rule.match(text) for the rule named key
RuleMatch(k, t) ==
    CASE k = "heading" -> Translator_heading(t)
      [] k = "bullet" -> Translator_bullet(t)
      [] k = "change_type" -> Translator_change_type(t)
      [] k = "url" -> Translator_url(t)
      [] k = "local_issue_link" -> Translator_local_issue_link(t)
      [] k = "text" -> Translator_text(t)

\* for key in self.rules: the index of the first rule from rules[i] on that
\* matches, 0 when the for loop ends without a break
RECURSIVE FirstRuleFrom(_, _)
FirstRuleFrom(t, i) ==
    IF i > Len(rules) THEN 0
    ELSE IF RuleMatch(rules[i], t).ok THEN i
    ELSE FirstRuleFrom(t, i + 1)

FirstRule(t) == FirstRuleFrom(t, 1)

\* while text: for key in self.rules: m = rule.match(text); if not m: continue
\* (when no rule matches, the for loop ends without a break and the while
\* loop starts over with the same text: no step is taken)
match_rule ==
    /\ pc = "loop"
    /\ text # <<>>
    /\ FirstRule(text) # 0
    /\ key' = rules[FirstRule(text)]
    /\ m' = RuleMatch(rules[FirstRule(text)], text)
    /\ pc' = "matched"
    /\ UNCHANGED <<local_repo, product, input, text, result, spans>>
    /\ UNCHANGED section_vars

\* def parse_heading(self, m)
parse_heading(prod, mt) == Renderer_heading(prod, mt.g0)

\* def parse_bullet(self, m)
parse_bullet(mt) == Renderer_bullet(mt.g1)

\* def parse_change_type(self, m)
parse_change_type(mt) == Renderer_change_type(mt.g1)

\* def parse_url(self, m)
parse_url(repo, mt) == Renderer_url(repo, mt.g1)

\* def parse_local_issue_link(self, m)
parse_local_issue_link(repo, mt) == Renderer_local_issue_link(repo, mt.g1)

\* def parse_text(self, m)
parse_text(mt) == Renderer_text(mt.g0)

\* callback = getattr(self, 'parse_' + key); callback_result = callback(m)
callback(k, repo, prod, mt) ==
    CASE k = "heading" -> parse_heading(prod, mt)
      [] k = "bullet" -> parse_bullet(mt)
      [] k = "change_type" -> parse_change_type(mt)
      [] k = "url" -> parse_url(repo, mt)
      [] k = "local_issue_link" -> parse_local_issue_link(repo, mt)
      [] k = "text" -> parse_text(mt)

\* translate as a function of its argument and the Renderer's two fields
\* (an input no rule matches makes the loop spin: no value is returned, and
\* the operator is left undefined there)
RECURSIVE Translate(_, _, _)
Translate(t, repo, prod) ==
    IF t = <<>> THEN <<>>
    ELSE LET k == rules[FirstRule(t)]
             mt == RuleMatch(k, t)
         IN  callback(k, repo, prod, mt) \o Translate(Drop(t, Len(mt.g0)), repo, prod)

\* the loop body is entered with rule k as the one that matched
Dispatch(k) ==
    /\ pc = "matched"
    /\ key = k

\* result += callback_result; text = text[len(m.group(0)):]; break
Consume(out) ==
    /\ result' = result \o out
    /\ text' = Drop(text, Len(m.g0))
    /\ spans' = Append(spans, [key |-> key,
                               start |-> Len(input) - Len(text),
                               matched |-> m.g0,
                               out |-> out])
    /\ key' = "none"
    /\ m' = NoMatch
    /\ pc' = "loop"
    /\ UNCHANGED <<local_repo, product, input>>
    /\ UNCHANGED section_vars

translate_heading ==
    /\ Dispatch("heading")
    /\ Consume(parse_heading(product, m))

translate_bullet ==
    /\ Dispatch("bullet")
    /\ Consume(parse_bullet(m))

translate_change_type ==
    /\ Dispatch("change_type")
    /\ Consume(parse_change_type(m))

translate_url ==
    /\ Dispatch("url")
    /\ Consume(parse_url(local_repo, m))

translate_local_issue_link ==
    /\ Dispatch("local_issue_link")
    /\ Consume(parse_local_issue_link(local_repo, m))

translate_text ==
    /\ Dispatch("text")
    /\ Consume(parse_text(m))

\* while text: ... return result
translate_return ==
    /\ pc = "loop"
    /\ text = <<>>
    /\ pc' = "done"
    /\ UNCHANGED <<local_repo, product, input, text, result, key, m, spans>>
    /\ UNCHANGED section_vars

Init ==
    /\ local_repo \in LocalRepos
    /\ product \in Products
    /\ input \in Inputs
    /\ text = input
    /\ result = <<>>
    /\ key = "none"
    /\ m = NoMatch
    /\ spans = <<>>
    /\ pc = "loop"
    /\ doc = <<>>
    /\ single_version = <<>>
    /\ fd = <<>>
    /\ initial = TRUE
    /\ lines = <<>>
    /\ section = <<>>
    /\ rpc = "idle"

Next ==
    \/ match_rule
    \/ translate_heading
    \/ translate_bullet
    \/ translate_change_type
    \/ translate_url
    \/ translate_local_issue_link
    \/ translate_text
    \/ translate_return

Spec == Init /\ [][Next]_vars

\* translate is a sequential loop: an iteration that can run does run
FairSpec == Init /\ [][Next]_vars /\ WF_vars(Next)

----------------------------------------------------------------------------
(* read_changelog_section.                                                  *)

MaxLines == 4

\* pieces of a changelog file; a file is up to MaxLines of them in a row
LinePieces == { <<"#", " ", "1", "\n">>, <<"#", "v", "\n">>, <<"#", "#", " ", "v", "1", "\n">>, <<"\n">>, <<"a", "1", "\n">>, <<"b">> }

RECURSIVE PieceSeqs(_)
PieceSeqs(n) ==
    IF n = 0 THEN {<<>>}
    ELSE LET shorter == PieceSeqs(n - 1) IN
         shorter \cup {s \o f : s \in shorter, f \in LinePieces}

Docs == PieceSeqs(MaxLines)

\* --only VERSION; <<>> when the option is not given
Hints == {<<>>, <<"1">>, <<"v">>, <<"#">>, <<"#", " ", "1">>}

\* the next line `for line in fd` yields: up to and with the first newline
ReadLine(f) ==
    LET n == RunLen(f, 1, "dot") IN
    IF n < Len(f) THEN SubSeq(f, 1, n + 1) ELSE f

\* initial_heading.match(line):
\*   re.compile(r'^#.*%s' % re.escape(single_version)) when single_version,
\*   re.compile(r'^#([^\d]*)\d') otherwise
initial_heading(hint, line) ==
    /\ Len(line) >= 1
    /\ line[1] = "#"
    /\ IF hint # <<>>
       THEN \E i \in 2..(Len(line) + 1) :
               /\ OccursAt(hint, line, i)
               /\ \A j \in 2..(i - 1) : IsDot(line[j])
       ELSE \E i \in 2..Len(line) : IsDigit(line[i])

\* heading = re.compile(r'^#')
heading(line) == Len(line) >= 1 /\ line[1] = "#"

ReadStep ==
    /\ rpc = "read"
    /\ fd # <<>>

section_skip ==
    /\ ReadStep
    /\ initial
    /\ ~initial_heading(single_version, ReadLine(fd))
    /\ fd' = Drop(fd, Len(ReadLine(fd)))
    /\ UNCHANGED <<doc, single_version, initial, lines, section, rpc>>
    /\ UNCHANGED translate_vars

section_start ==
    /\ ReadStep
    /\ initial
    /\ initial_heading(single_version, ReadLine(fd))
    /\ initial' = FALSE
    /\ lines' = Append(lines, ReadLine(fd))
    /\ fd' = Drop(fd, Len(ReadLine(fd)))
    /\ UNCHANGED <<doc, single_version, section, rpc>>
    /\ UNCHANGED translate_vars

section_append ==
    /\ ReadStep
    /\ ~initial
    /\ ~heading(ReadLine(fd))
    /\ lines' = Append(lines, ReadLine(fd))
    /\ fd' = Drop(fd, Len(ReadLine(fd)))
    /\ UNCHANGED <<doc, single_version, initial, section, rpc>>
    /\ UNCHANGED translate_vars

\* break
section_break ==
    /\ ReadStep
    /\ ~initial
    /\ heading(ReadLine(fd))
    /\ fd' = Drop(fd, Len(ReadLine(fd)))
    /\ rpc' = "prune"
    /\ UNCHANGED <<doc, single_version, initial, lines, section>>
    /\ UNCHANGED translate_vars

\* the for loop runs out of lines
section_eof ==
    /\ rpc = "read"
    /\ fd = <<>>
    /\ rpc' = "prune"
    /\ UNCHANGED <<doc, single_version, fd, initial, lines, section>>
    /\ UNCHANGED translate_vars

\* while result and result[-1] == '\n': result.pop()
section_pop ==
    /\ rpc = "prune"
    /\ lines # <<>>
    /\ lines[Len(lines)] = <<"\n">>
    /\ lines' = SubSeq(lines, 1, Len(lines) - 1)
    /\ UNCHANGED <<doc, single_version, fd, initial, section, rpc>>
    /\ UNCHANGED translate_vars

\* return ''.join(result)
section_return ==
    /\ rpc = "prune"
    /\ ~(lines # <<>> /\ lines[Len(lines)] = <<"\n">>)
    /\ section' = Join(lines)
    /\ rpc' = "done"
    /\ UNCHANGED <<doc, single_version, fd, initial, lines>>
    /\ UNCHANGED translate_vars

InitSection ==
    /\ doc \in Docs
    /\ single_version \in Hints
    /\ fd = doc
    /\ initial = TRUE
    /\ lines = <<>>
    /\ section = <<>>
    /\ rpc = "read"
    /\ local_repo = <<>>
    /\ product = <<>>
    /\ input = <<>>
    /\ text = <<>>
    /\ result = <<>>
    /\ key = "none"
    /\ m = NoMatch
    /\ spans = <<>>
    /\ pc = "idle"

NextSection ==
    \/ section_skip
    \/ section_start
    \/ section_append
    \/ section_break
    \/ section_eof
    \/ section_pop
    \/ section_return

SpecSection == InitSection /\ [][NextSection]_vars

----------------------------------------------------------------------------
(* Vocabulary of the properties: positions in the input are 1-based, a     *)
(* span covers the input from start + 1 to start + Len(matched).           *)

Done == pc = "done"

SpanFirst(sp) == sp.start + 1

SpanLast(sp) == sp.start + Len(sp.matched)

Matched == [i \in DOMAIN spans |-> spans[i].matched]

Rendered == [i \in DOMAIN spans |-> spans[i].out]

\* position i of s is the first of a line
LineStart(s, i) == i = 1 \/ (i > 1 /\ i <= Len(s) + 1 /\ s[i - 1] = "\n")

\* the characters from position i to the end of its line, newline excluded
RECURSIVE RestOfLine(_, _)
RestOfLine(s, i) ==
    IF i > Len(s) \/ s[i] = "\n" THEN <<>>
    ELSE <<s[i]>> \o RestOfLine(s, i + 1)

\* the number of whitespace characters other than newline from position i on
RECURSIVE IndentLen(_, _)
IndentLen(s, i) ==
    IF i <= Len(s) /\ s[i] \in {" ", "\t", "\r", "\f"}
    THEN 1 + IndentLen(s, i + 1)
    ELSE 0

\* a line starts at position i with optional whitespace, a marker and a space
ListItemAt(s, i) ==
    /\ LineStart(s, i)
    /\ LET mk == i + IndentLen(s, i) IN
       /\ mk + 1 <= Len(s)
       /\ s[mk] \in {"*", "+", "-"}
       /\ s[mk + 1] = " "

\* the number of word characters from position i on
RECURSIVE WordLen(_, _)
WordLen(s, i) ==
    IF i <= Len(s) /\ s[i] \in Letters \cup Digits \cup {"_"}
    THEN 1 + WordLen(s, i + 1)
    ELSE 0

\* a bracketed single word '[w]' starts at position i
TagAt(s, i) ==
    /\ i <= Len(s)
    /\ s[i] = "["
    /\ WordLen(s, i + 1) >= 1
    /\ i + WordLen(s, i + 1) + 1 <= Len(s)
    /\ s[i + WordLen(s, i + 1) + 1] = "]"

\* the position of the ']' of the tag at i, and its word
TagEnd(s, i) == i + WordLen(s, i + 1) + 1

TagWord(s, i) == SubSeq(s, i + 1, TagEnd(s, i) - 1)

\* the tag at i is immediately followed by '('
TagBeforeParen(s, i) == TagEnd(s, i) + 1 <= Len(s) /\ s[TagEnd(s, i) + 1] = "("

\* 'http://' or 'https://' starts at position i
SchemeAt(s, i) == OccursAt(HTTP, s, i) \/ OccursAt(HTTPS, s, i)

\* position i is the target of markdown link syntax: '](' is right before it
WrappedAt(s, i) == i >= 3 /\ s[i - 2] = "]" /\ s[i - 1] = "("

\* the number of digits from position i on
RECURSIVE DigitLen(_, _)
DigitLen(s, i) ==
    IF i <= Len(s) /\ s[i] \in Digits THEN 1 + DigitLen(s, i + 1) ELSE 0

\* '(#digits)' starts at position i
IssueRefAt(s, i) ==
    /\ OccursAt(<<"(", "#">>, s, i)
    /\ DigitLen(s, i + 2) >= 1
    /\ i + 2 + DigitLen(s, i + 2) <= Len(s)
    /\ s[i + 2 + DigitLen(s, i + 2)] = ")"

----------------------------------------------------------------------------
(* C1: translate terminates.                                                *)

\* every rule that was taken matched a non-empty prefix of the text that
\* remained, so the matched spans in match order, followed by the remaining
\* text, are the input, and each span is at least one character long
SpansCoverInput ==
    /\ \A i \in DOMAIN spans : Len(spans[i].matched) >= 1
    /\ Join(Matched) \o text = input

\* C1: for every input and every Renderer configuration translate returns
\* (the loop is a sequential one: an iteration that can run does run), every
\* iteration having taken a non-empty prefix of the remaining text, and the
\* matched spans concatenated in match order are then the input exactly.
C1_Terminates == <>(Done /\ text = <<>> /\ SpansCoverInput)

\* a translation has returned in which the fallback rule took a text that
\* starts with a trigger character no other rule claimed
C1_Witness ==
    /\ Done
    /\ Len(spans) >= 2
    /\ \E i \in DOMAIN spans :
          /\ spans[i].key = "text"
          /\ spans[i].matched[1] \in {"(", "[", "\n"}

----------------------------------------------------------------------------
(* C2: the end-to-end scenario of the specification.                        *)

E2E_Input == <<"#", "#", " ", "1", ".", "2", ".", "0", "\n", "-", " ", "[", "a", "d", "d", "e", "d", "]", " ", "S", "u", "p", "p", "o", "r", "t", " ", "f", "o", "r", " ", "X", " ", "(", "#", "1", "2", ")", "\n">>

E2E_Output == <<"#", "#", "#", " ", "{", "{", "w", "i", "d", "g", "e", "t", "s", "}", "}", "\n", "*", " ", "{", "{", "f", "e", "a", "t", "u", "r", "e", "}", "}", " ", "S", "u", "p", "p", "o", "r", "t", " ", "f", "o", "r", " ", "X", " ", "(", "[", "#", "1", "2", "]", "(", "/", "/", "g", "i", "t", "h", "u", "b", ".", "c", "o", "m", "/", "o", "r", "g", "/", "r", "e", "p", "o", "/", "i", "s", "s", "u", "e", "s", "/", "1", "2", ")", ")", "\n">>

\* C2: with product {{widgets}} and local repo org/repo, translate returns
\* exactly E2E_Output for E2E_Input (one newline between heading and bullet).
C2_EndToEnd ==
    (/\ Done
     /\ input = E2E_Input
     /\ product = <<"{", "{", "w", "i", "d", "g", "e", "t", "s", "}", "}">>
     /\ local_repo = <<"o", "r", "g", "/", "r", "e", "p", "o">>)
    => result = E2E_Output

----------------------------------------------------------------------------
(* C3: passthrough identity.                                                *)

\* none of the recognized constructs occurs in s
NoConstruct(s) ==
    \A i \in 1..Len(s) :
        /\ ~(LineStart(s, i) /\ s[i] = "#")
        /\ ~ListItemAt(s, i)
        /\ ~TagAt(s, i)
        /\ ~(SchemeAt(s, i) /\ ~WrappedAt(s, i))
        /\ ~IssueRefAt(s, i)

\* C3: an input with no line starting with '#', no list item, no bracketed
\* word, no bare URL and no '(#digits)' is returned unchanged.
C3_Passthrough == (Done /\ NoConstruct(input)) => result = input

----------------------------------------------------------------------------
(* C4: the heading policy.                                                  *)

\* the rendering the heading policy gives a heading line
HeadingPolicy(prod, line) ==
    IF prod = <<>> THEN line
    ELSE IF prod = NO_HEADING THEN <<>>
    ELSE <<"#", "#", "#", " ">> \o prod \o <<"\n">>

\* C4: every line of the input that begins with '#', first or later, is
\* rendered by the heading policy: the heading rule takes the whole line and
\* its output is the policy's, or (no product configured, where the policy is
\* to leave the line as it is) every span that touches the line leaves what
\* it matched unchanged.
C4_HeadingLines ==
    Done =>
        \A i \in 1..Len(input) :
            (LineStart(input, i) /\ input[i] = "#") =>
                \/ \E j \in DOMAIN spans :
                      /\ spans[j].key = "heading"
                      /\ SpanFirst(spans[j]) = i
                      /\ spans[j].matched = RestOfLine(input, i)
                      /\ spans[j].out = HeadingPolicy(product, RestOfLine(input, i))
                \/ /\ product = <<>>
                   /\ \A j \in DOMAIN spans :
                         (/\ SpanFirst(spans[j]) <= i + Len(RestOfLine(input, i)) - 1
                          /\ SpanLast(spans[j]) >= i)
                         => spans[j].out = spans[j].matched

----------------------------------------------------------------------------
(* C5: bullet normalization.                                                *)

\* s with the marker of every list item replaced by '*'
StarMarkers(s) ==
    [i \in 1..Len(s) |->
        IF \E b \in 1..i : ListItemAt(s, b) /\ b + IndentLen(s, b) = i
        THEN "*"
        ELSE s[i]]

\* C5: every list item that starts a line is taken by one bullet match that
\* ends at the item's space and is rendered as the text it matched before the
\* marker (line break and indentation) followed by '* '; the output is the
\* rendered spans in order, and it is the output of the same input with every
\* list item's marker replaced by '*'.
C5_BulletNormalized ==
    Done =>
        /\ \A b \in 1..Len(input) :
              ListItemAt(input, b) =>
                  LET mk == b + IndentLen(input, b) IN
                  \E j \in DOMAIN spans :
                      /\ spans[j].key = "bullet"
                      /\ SpanFirst(spans[j]) <= b
                      /\ SpanLast(spans[j]) = mk + 1
                      /\ spans[j].out =
                            SubSeq(input, SpanFirst(spans[j]), mk - 1) \o <<"*", " ">>
        /\ result = Join(Rendered)
        /\ result = Translate(StarMarkers(input), local_repo, product)

\* a translation has returned whose input has an indented '+' or '-' item on
\* a later line
C5_Witness ==
    /\ Done
    /\ \E b \in 2..Len(input) :
          /\ ListItemAt(input, b)
          /\ IndentLen(input, b) >= 1
          /\ input[b + IndentLen(input, b)] \in {"+", "-"}
          /\ \E j \in DOMAIN spans :
                spans[j].key = "bullet" /\ SpanLast(spans[j]) = b + IndentLen(input, b) + 1

----------------------------------------------------------------------------
(* C6: the tag macro.                                                       *)

\* 'added' is rendered as 'feature', every other word as itself
TagMacro(w) ==
    <<"{", "{">> \o (IF w = <<"a", "d", "d", "e", "d">> THEN <<"f", "e", "a", "t", "u", "r", "e">> ELSE w) \o <<"}", "}">>

\* a tag the cursor reaches, not followed by '(', is rendered as its macro
TagsRendered ==
    \A j \in DOMAIN spans :
        LET q == SpanFirst(spans[j]) IN
        (TagAt(input, q) /\ ~TagBeforeParen(input, q)) =>
            /\ spans[j].key = "change_type"
            /\ SpanLast(spans[j]) = TagEnd(input, q)
            /\ spans[j].out = TagMacro(TagWord(input, q))

\* the characters of every tag followed by '(' are taken by these rules only
LinkTextTakenBy(allowed) ==
    \A q \in 1..Len(input) :
        (TagAt(input, q) /\ TagBeforeParen(input, q)) =>
            \A j \in DOMAIN spans :
                (SpanFirst(spans[j]) <= TagEnd(input, q) /\ SpanLast(spans[j]) >= q) =>
                    spans[j].key \in allowed

\* C6 as stated: when translate returns, every tag the cursor reached was
\* rendered as its macro, and a bracketed word followed by '(' reached the
\* output only through the text and url rules.
C6_Stated == Done => (TagsRendered /\ LinkTextTakenBy({"text", "url"}))

\* C6 as amended: when translate returns, every tag the cursor reached was
\* rendered as its macro, and a bracketed word followed by '(' was never
\* rendered as a tag: its characters were taken by the text and url rules, or
\* by the heading rule when they sit in a heading the cursor reached.
C6_TagMacro == Done => (TagsRendered /\ LinkTextTakenBy({"text", "url", "heading"}))

\* a translation has returned that rendered '[added]' as its macro and passed
\* a '[w](' through the text rule
C6_Witness ==
    /\ Done
    /\ \E j \in DOMAIN spans :
          /\ spans[j].key = "change_type"
          /\ spans[j].matched = <<"[", "a", "d", "d", "e", "d", "]">>
          /\ spans[j].out = <<"{", "{", "f", "e", "a", "t", "u", "r", "e", "}", "}">>
    /\ \E q \in 1..Len(input) :
          /\ TagAt(input, q)
          /\ TagBeforeParen(input, q)
          /\ \E j \in DOMAIN spans :
                spans[j].key = "text" /\ SpanFirst(spans[j]) = q

----------------------------------------------------------------------------
(* C7: issue link rendering.                                                *)

GITHUB_ISSUES_PREFIX == <<"h", "t", "t", "p", "s", ":", "/", "/", "g", "i", "t", "h", "u", "b", ".", "c", "o", "m", "/">>

\* u is 'https://github.com/<R>/issues/<n>' with n one or more digits
IssueShape(u) ==
    /\ Prefix(GITHUB_ISSUES_PREFIX, u)
    /\ TrailingDigits(u) >= 1
    /\ Len(u) - TrailingDigits(u) - 7 >= Len(GITHUB_ISSUES_PREFIX) + 1
    /\ OccursAt(ISSUES, u, Len(u) - TrailingDigits(u) - 7)

ShapeRepo(u) == SubSeq(u, Len(GITHUB_ISSUES_PREFIX) + 1, Len(u) - TrailingDigits(u) - 8)

ShapeIssue(u) == SubSeq(u, Len(u) - TrailingDigits(u) + 1, Len(u))

\* the rendering C7 gives the URL u under local repo l
IssueLinkPolicy(l, u) ==
    IF IssueShape(u)
    THEN <<"[">> \o (IF ShapeRepo(u) = l THEN <<>> ELSE ShapeRepo(u))
         \o <<"#">> \o ShapeIssue(u) \o <<"]", "(">> \o Drop(u, 6) \o <<")">>
    ELSE u

\* C7: every URL the url rule takes is rendered as the issue link when it has
\* the shape https://github.com/<R>/issues/<n>, and is returned unchanged
\* otherwise.
C7_IssueLinks ==
    \A j \in DOMAIN spans :
        spans[j].key = "url" =>
            spans[j].out = IssueLinkPolicy(local_repo, spans[j].matched)

----------------------------------------------------------------------------
(* C9: the bullet rule fires only at the start of a line.                   *)

\* everything before position i on its line is whitespace
OnlySpaceBefore(s, i) ==
    \A j \in 1..(i - 1) :
        (\A k \in j..(i - 1) : s[k] # "\n") => IsSpace(s[j])

\* C9: a marker and space are rewritten only at the start of a line: every
\* bullet match has nothing but whitespace before its marker on the line, or
\* leaves what it matched unchanged.
C9_BulletAtLineStart ==
    \A j \in DOMAIN spans :
        spans[j].key = "bullet" =>
            \/ OnlySpaceBefore(input, SpanLast(spans[j]) - 1)
            \/ spans[j].out = spans[j].matched

----------------------------------------------------------------------------
(* C10: the url rule applies only to bare URLs.                             *)

\* C10: a URL that is the target of markdown link syntax appears unchanged in
\* the output: the span that starts at it leaves what it matched unchanged.
C10_BareUrlsOnly ==
    \A j \in DOMAIN spans :
        (/\ SchemeAt(input, SpanFirst(spans[j]))
         /\ WrappedAt(input, SpanFirst(spans[j])))
        => spans[j].out = spans[j].matched

----------------------------------------------------------------------------
(* C8: section extraction.                                                  *)

\* the lines of a file, each with its newline
RECURSIVE SplitLines(_)
SplitLines(s) ==
    IF s = <<>> THEN <<>>
    ELSE LET n == Len(RestOfLine(s, 1)) IN
         IF n < Len(s)
         THEN <<SubSeq(s, 1, n + 1)>> \o SplitLines(Drop(s, n + 1))
         ELSE <<s>>

\* p occurs in line
Contains(p, line) == \E i \in 1..(Len(line) + 1) : OccursAt(p, line, i)

\* the line opens the wanted section: it starts with '#' and, without a hint,
\* contains a digit; with a hint, contains the hint string
Wanted(hint, line) ==
    /\ Len(line) >= 1
    /\ line[1] = "#"
    /\ IF hint = <<>>
       THEN \E i \in 1..Len(line) : line[i] \in Digits
       ELSE Contains(hint, line)

\* ls without its trailing empty lines
RECURSIVE DropBlankTail(_)
DropBlankTail(ls) ==
    IF ls # <<>> /\ ls[Len(ls)] = <<"\n">>
    THEN DropBlankTail(SubSeq(ls, 1, Len(ls) - 1))
    ELSE ls

\* the section the claim describes
SectionOf(d, hint) ==
    LET ls == SplitLines(d)
        heads == {i \in DOMAIN ls : Wanted(hint, ls[i])}
    IN  IF heads = {} THEN <<>>
        ELSE LET h == CHOOSE i \in heads : \A j \in heads : i <= j
                 nexts == {i \in DOMAIN ls : i > h /\ ls[i][1] = "#"}
                 e == IF nexts = {} THEN Len(ls) + 1
                      ELSE CHOOSE i \in nexts : \A j \in nexts : i <= j
             IN  Join(DropBlankTail(SubSeq(ls, h, e - 1)))

\* C8: the value returned is the first line that starts with '#' and
\* contains a digit (no hint) or the hint string (with a hint), followed by
\* the lines up to the next line that starts with '#', without trailing
\* empty lines; it is empty when no line opens the section.
C8_SectionExtracted == rpc = "done" => section = SectionOf(doc, single_version)
====
